---- MODULE Spec2Model ----
(***************************************************************************)
(* The WebSocket gateway client of api-proxy.js: the module-level state    *)
(* (gwSocket, gwReady, gwPending, gwReqId, gwEvents, gwReconnectTimer,     *)
(* gwSnapshot), the functions gwConnect, gwSendConnect and gwCall, and the *)
(* listeners gwConnect registers on a socket.  Node runs every listener    *)
(* and every timer callback to completion, so each of them is one action.  *)
(* The ws library and the gateway are the environment: a socket opens,     *)
(* fails, delivers frames and delivers its close event exactly once.       *)
(***************************************************************************)
EXTENDS Integers, Sequences, FiniteSets, TLC

\* ---------------------------------------------------------------- bounds
MaxSockets == 2      \* sockets created during one process lifetime
MaxCalls == 2        \* gwCalls that get an id during one process lifetime
MaxAuth == 1         \* authentication requests sent (randomUUID draws)
MaxBufEvents == 52   \* buffered events received under SpecBuf
MaxSnapEvents == 2   \* buffered events received under SpecSnap
MaxChallenges == 2   \* authentication requests sent under SpecAuth

\* ------------------------------------------------------ program constants
EventCap == 50       \* gwEvents.length > 50 -> shift()

\* ------------------------------------------------------------- JS values
Undef == [t |-> "undefined"]
Null == [t |-> "null"]
Str(s) == [t |-> "string", s |-> s]
Num(n) == [t |-> "number", n |-> n]
Bool(b) == [t |-> "boolean", b |-> b]
Obj(f) == [t |-> "object", f |-> f]
EmptyObj == Obj(<<>>)

\* JavaScript truthiness of the values the model uses (objects are truthy,
\* undefined, null, 0 and "" are falsy).
Truthy(v) ==
  CASE v.t = "undefined" -> FALSE
    [] v.t = "null" -> FALSE
    [] v.t = "number" -> v.n # 0
    [] v.t = "string" -> v.s # ""
    [] v.t = "boolean" -> v.b
    [] OTHER -> TRUE

\* a || b
JsOr(a, b) == IF Truthy(a) THEN a ELSE b

\* ------------------------------------------------------- correlation ids
NoId == <<"none", 0>>
RpcId(n) == <<"rpc", n>>        \* `rpc-${n}`
UuidId(k) == <<"uuid", k>>      \* the k-th crypto.randomUUID() of gwSendConnect

Methods == {"a", "b"}

\* ------------------------------------------------------------- task store
\* Requests to /tasks and /suggestions, ids the task id expression may
\* produce, and the tasks and suggestions of the seed.
MaxRequests == 2
MaxTaskIds == 2
SeedTasks == 1
SeedSuggestions == 2

NoTarget == <<"none", 0>>
TaskId(k) == <<"task", k>>       \* `task-${Date.now()}-${Math.random()...}`
SeedId(k) == <<"seed", k>>       \* 'seed-1', ...
SugId(k) == <<"sug", k>>         \* 'sug-1', ...
NewTaskIds == {TaskId(k) : k \in 1..MaxTaskIds}
AllTaskIds == NewTaskIds \cup {SeedId(k) : k \in 1..SeedTasks}
SugIds == {SugId(k) : k \in 1..SeedSuggestions}

VARIABLES
  sock,              \* readyState of every socket created so far ("NONE": not yet)
  nSock,             \* number of sockets created (new WebSocket)
  gwSocket,          \* 0 (null) or the socket the client holds
  gwReady,
  gwPending,         \* id -> entry (the Map)
  timers,            \* armed deadline timers: id -> the method its callback names
  gwReqId,
  nUuid,             \* randomUUID draws made by gwSendConnect for request ids
  gwEvents,
  gwSnapshot,
  gwReconnectTimer,  \* TRUE when the variable holds a timer handle
  reconnTimers,      \* reconnect callbacks scheduled and not yet fired
  started,           \* server.listen's callback has run
  crashed,           \* an exception escaped a listener: the process is gone
  calls,             \* history: every gwCall that got an id, with the outcomes its promise was handed
                     \* and whether it was accepted after the client asked the socket to close
  refused,           \* history: the outcomes handed to gwCalls rejected at once
  auths,             \* history: every gwSendConnect, with the outcomes its entry was handed
  nSent,             \* number of frames handed to gwSocket.send
  lastSent,          \* the frame handed to gwSocket.send last
  closeReq,          \* close code the client asked a socket to close with (0: none), until it has closed
  nRecv,             \* history: number of buffered events received
  arrived,           \* history: every buffered event, in arrival order
  closedArmed,       \* history: a close listener ran while a reconnect timer was armed
  fired,             \* history: ids whose deadline timer callback has run
  noNonce,           \* live sockets that delivered a connect.challenge without a nonce
  closedReady,       \* live sockets the client asked to close (1008) while it was Ready
  matched,           \* history: ids for which a response found its pending entry
  file,              \* tasks.json: whether it exists, and the tasks and suggestions it holds
  reqs,              \* the /tasks and /suggestions requests: where each handler stands
  done               \* history: the requests answered, in the order of their answers

vars == <<sock, nSock, gwSocket, gwReady, gwPending, timers, gwReqId, nUuid,
          gwEvents, gwSnapshot, gwReconnectTimer, reconnTimers, started,
          crashed, calls, refused, auths, nSent, lastSent, closeReq, nRecv,
          arrived, closedArmed, fired, noNonce, closedReady, matched,
          file, reqs, done>>

\* The state of the gateway client, and the state of the task store.
gwVars == <<sock, nSock, gwSocket, gwReady, gwPending, timers, gwReqId, nUuid,
            gwEvents, gwSnapshot, gwReconnectTimer, reconnTimers, started,
            crashed, calls, refused, auths, nSent, lastSent, closeReq, nRecv,
            arrived, closedArmed, fired, noNonce, closedReady, matched>>
taskVars == <<file, reqs, done>>

SockIds == 1..MaxSockets

Init ==
  /\ sock = [s \in SockIds |-> "NONE"]
  /\ nSock = 0
  /\ gwSocket = 0
  /\ gwReady = FALSE
  /\ gwPending = <<>>
  /\ timers = <<>>
  /\ gwReqId = 0
  /\ nUuid = 0
  /\ gwEvents = <<>>
  /\ gwSnapshot = Null
  /\ gwReconnectTimer = FALSE
  /\ reconnTimers = 0
  /\ started = FALSE
  /\ crashed = FALSE
  /\ calls = <<>>
  /\ refused = {}
  /\ auths = <<>>
  /\ nSent = 0
  /\ lastSent = [sock |-> 0, id |-> NoId, method |-> ""]
  /\ closeReq = [s \in SockIds |-> 0]
  /\ nRecv = 0
  /\ arrived = <<>>
  /\ closedArmed = FALSE
  /\ fired = {}
  /\ noNonce = {}
  /\ closedReady = {}
  /\ matched = {}
  /\ file = [exists |-> FALSE, tasks |-> <<>>, suggestions |-> <<>>]
  /\ reqs = [r \in 1..MaxRequests |-> [pc |-> "new", kind |-> "", target |-> NoTarget]]
  /\ done = <<>>

\* ------------------------------------------------------------ Map helpers
MapHas(m, k) == k \in DOMAIN m
MapSet(m, k, v) == [x \in (DOMAIN m) \cup {k} |-> IF x = k THEN v ELSE m[x]]
MapDelete(m, k) == [x \in (DOMAIN m) \ {k} |-> m[x]]

\* A live socket: created, and its close event not yet delivered.
Live(s) == sock[s] \in {"CONNECTING", "OPEN", "CLOSING"}
LiveSockets == {s \in SockIds : Live(s)}

\* v?.key / v.key on a value that is not null or undefined
Get(v, key) == IF v.t = "object" /\ key \in DOMAIN v.f THEN v.f[key] ELSE Undef

\* The own properties { ...v } copies: none for null, undefined and numbers.
Spread(v) == IF v.t = "object" THEN v.f ELSE <<>>

\* ---------------------------------------------------------------- frames
\* What JSON.parse(data.toString()) yields, or that it throws.
Frame(raw, type, event, id, ok, payload, result, error) ==
  [raw |-> raw, type |-> type, event |-> event, id |-> id, ok |-> ok,
   payload |-> payload, result |-> result, error |-> error]

Unparsable == Frame("unparsable", "", "", NoId, Undef, Undef, Undef, Undef)
JsonNull == Frame("null", "", "", NoId, Undef, Undef, Undef, Undef)
Challenge(payload) ==
  Frame("object", "event", "connect.challenge", NoId, Undef, payload, Undef, Undef)
EventFrame(name, payload) ==
  Frame("object", "event", name, NoId, Undef, payload, Undef, Undef)
ResFrame(id, ok, payload, result, error) ==
  Frame("object", "res", "", id, ok, payload, result, error)
OtherFrame == Frame("object", "req", "", RpcId(1), Undef, Undef, Undef, Undef)

\* The frame as the value a caller is handed by `msg.payload || msg.result || msg`.
MsgValue(msg) == Obj(msg)

WithNonce == Obj([k \in {"nonce"} |-> Str("n1")])
HealthA == Obj([k \in {"cpu"} |-> Num(1)])
HealthB == Obj([k \in {"mem"} |-> Num(2)])
HelloSnapshot == Obj([k \in {"snapshot"} |-> Obj([j \in {"sessions"} |-> Num(3)])])
HelloPlain == Obj([k \in {"presence"} |-> Num(4)])
ErrBoom == Obj([k \in {"message"} |-> Str("boom")])

\* ------------------------------------------------------------- outcomes
Success(v) == [res |-> "success", reason |-> "", arg |-> v]
Failure(reason, v) == [res |-> "failure", reason |-> reason, arg |-> v]

\* The call whose promise the closures of request `id` settle.
CallOf(id) == CHOOSE c \in DOMAIN calls : calls[c].id = id

\* Hand outcome o to the resolve/reject closures of entry e.
Handed(cs, e, o) ==
  IF e.kind = "rpc"
  THEN [cs EXCEPT ![e.n].out = Append(@, o)]
  ELSE cs
HandedAuth(as, e, o) ==
  IF e.kind = "auth"
  THEN [as EXCEPT ![e.n].out = Append(@, o)]
  ELSE as

\* ------------------------------------------------------------- gwConnect
\* function gwConnect(): the guard, new WebSocket, gwReady = false.  The
\* listeners it registers are the actions further down.
GwConnect ==
  IF gwSocket # 0 /\ sock[gwSocket] \in {"OPEN", "CONNECTING"}
  THEN UNCHANGED <<sock, nSock, gwSocket, gwReady>>
  ELSE /\ nSock' = nSock + 1
       /\ sock' = [sock EXCEPT ![nSock + 1] = "CONNECTING"]
       /\ gwSocket' = nSock + 1
       /\ gwReady' = FALSE

\* ----------------------------------------------------------- gwSendConnect
\* function gwSendConnect(nonce): draws the request id, sends the connect
\* frame on gwSocket and records the pending entry with its 10 s timer.
\* gwSocket.send on a null gwSocket throws out of the message listener.
GwSendConnect(nonce) ==
  LET id == UuidId(nUuid + 1) IN
  /\ nUuid' = nUuid + 1
  /\ IF gwSocket = 0
     THEN /\ crashed' = TRUE
          /\ UNCHANGED <<nSent, lastSent, gwPending, timers, auths>>
     ELSE /\ nSent' = nSent + 1
          /\ lastSent' = [sock |-> gwSocket, id |-> id, method |-> "connect"]
          /\ gwPending' = MapSet(gwPending, id, [kind |-> "auth", n |-> Len(auths) + 1])
          /\ timers' = MapSet(timers, id, "connect")
          /\ auths' = Append(auths, [id |-> id, sock |-> gwSocket, out |-> <<>>])
          /\ UNCHANGED crashed

\* ------------------------------------------------- message listener parts
\* if (msg.type === 'event' && msg.event === 'connect.challenge') { ... }
OnChallenge(msg) ==
  LET nonce == Get(msg.payload, "nonce") IN
  IF ~Truthy(nonce)
  THEN \* return gwSocket.close(1008, 'no nonce')
       /\ IF gwSocket = 0
          THEN crashed' = TRUE /\ UNCHANGED <<sock, closeReq>>
          ELSE /\ UNCHANGED crashed
               /\ IF sock[gwSocket] = "OPEN"
                  THEN /\ sock' = [sock EXCEPT ![gwSocket] = "CLOSING"]
                       /\ closeReq' = [closeReq EXCEPT ![gwSocket] = 1008]
                  ELSE UNCHANGED <<sock, closeReq>>
       /\ UNCHANGED <<nUuid, nSent, lastSent, gwPending, timers, auths>>
       /\ UNCHANGED <<gwReady, gwSnapshot, gwEvents, nRecv, arrived, calls>>
  ELSE /\ GwSendConnect(nonce)
       /\ UNCHANGED <<sock, closeReq>>
       /\ UNCHANGED <<gwReady, gwSnapshot, gwEvents, nRecv, arrived, calls>>

\* Mutant of PushEvent: the newest entry is dropped instead of the oldest.
PushEventPops(buf, e) ==
  LET pushed == Append(buf, e) IN
  IF Len(pushed) > EventCap THEN SubSeq(pushed, 1, Len(pushed) - 1) ELSE pushed

\* gwEvents.push(e); if (gwEvents.length > 50) gwEvents.shift();
PushEvent(buf, e) ==
  LET pushed == Append(buf, e) IN
  IF Len(pushed) > EventCap THEN Tail(pushed) ELSE pushed

\* Mutant of OnEvent: the payload of a health event is merged key by key into
\* the health data already held.
OnEventMergesHealth(msg) ==
  LET e == [time |-> nRecv + 1, event |-> msg.event, payload |-> msg.payload]
      old == Spread(Get(gwSnapshot, "health"))
      new == Spread(msg.payload)
      merged == Obj([k \in DOMAIN old \cup DOMAIN new |->
                       IF k \in DOMAIN new THEN new[k] ELSE old[k]]) IN
  /\ gwSnapshot' = IF msg.event = "health" /\ Truthy(msg.payload)
                   THEN Obj([k \in DOMAIN Spread(gwSnapshot) \cup {"health"} |->
                               IF k = "health" THEN merged
                               ELSE Spread(gwSnapshot)[k]])
                   ELSE gwSnapshot
  /\ gwEvents' = PushEvent(gwEvents, e)
  /\ nRecv' = nRecv + 1
  /\ arrived' = Append(arrived, e)
  /\ UNCHANGED <<crashed, sock, closeReq, nUuid, nSent, lastSent, gwPending, timers, auths,
                 gwReady, calls>>

\* Mutant of OnEvent: a health event replaces the snapshot by its payload.
OnEventOverwrites(msg) ==
  LET e == [time |-> nRecv + 1, event |-> msg.event, payload |-> msg.payload] IN
  /\ gwSnapshot' = IF msg.event = "health" /\ Truthy(msg.payload)
                   THEN Obj([k \in {"health"} |-> msg.payload])
                   ELSE gwSnapshot
  /\ gwEvents' = PushEvent(gwEvents, e)
  /\ nRecv' = nRecv + 1
  /\ arrived' = Append(arrived, e)
  /\ UNCHANGED <<crashed, sock, closeReq, nUuid, nSent, lastSent, gwPending, timers, auths,
                 gwReady, calls>>

\* Mutant of OnEvent: a health event that is merged is not buffered.
OnEventExclusive(msg) ==
  LET e == [time |-> nRecv + 1, event |-> msg.event, payload |-> msg.payload]
      merges == msg.event = "health" /\ Truthy(msg.payload) IN
  /\ gwSnapshot' = IF merges
                   THEN Obj([k \in DOMAIN Spread(gwSnapshot) \cup {"health"} |->
                               IF k = "health" THEN msg.payload
                               ELSE Spread(gwSnapshot)[k]])
                   ELSE gwSnapshot
  /\ gwEvents' = IF merges THEN gwEvents ELSE PushEvent(gwEvents, e)
  /\ nRecv' = nRecv + 1
  /\ arrived' = Append(arrived, e)
  /\ UNCHANGED <<crashed, sock, closeReq, nUuid, nSent, lastSent, gwPending, timers, auths,
                 gwReady, calls>>

\* if (msg.type === 'event') { ... }
OnEvent(msg) ==
  LET e == [time |-> nRecv + 1, event |-> msg.event, payload |-> msg.payload] IN
  /\ gwSnapshot' = IF msg.event = "health" /\ Truthy(msg.payload)
                   THEN Obj([k \in DOMAIN Spread(gwSnapshot) \cup {"health"} |->
                               IF k = "health" THEN msg.payload
                               ELSE Spread(gwSnapshot)[k]])
                   ELSE gwSnapshot
  /\ gwEvents' = PushEvent(gwEvents, e)
  /\ nRecv' = nRecv + 1
  /\ arrived' = Append(arrived, e)
  /\ UNCHANGED <<crashed, sock, closeReq, nUuid, nSent, lastSent, gwPending, timers, auths,
                 gwReady, calls>>

\* The resolve closure of an entry: the promise's resolve for a call, the
\* "Auth accepted" closure of gwSendConnect for the connect request.
Resolve(e, v) ==
  /\ calls' = Handed(calls, e, Success(v))
  /\ auths' = HandedAuth(auths, e, Success(v))
  /\ IF e.kind = "auth"
     THEN /\ gwReady' = TRUE
          /\ gwSnapshot' = JsOr(Get(v, "snapshot"), v)
     ELSE UNCHANGED <<gwReady, gwSnapshot>>

\* The reject closure of an entry: the promise's reject for a call, a log
\* line for the connect request.
Reject(e, reason, v) ==
  /\ calls' = Handed(calls, e, Failure(reason, v))
  /\ auths' = HandedAuth(auths, e, Failure(reason, v))
  /\ UNCHANGED <<gwReady, gwSnapshot>>

\* Mutant of OnRes: the response settles the oldest pending entry, whatever
\* its id.
OnResOldestFirst(msg) ==
  /\ IF MapHas(gwPending, msg.id)
     THEN LET first == CHOOSE id \in DOMAIN gwPending :
                         \A other \in DOMAIN gwPending :
                           id[1] = other[1] => id[2] <= other[2]
              pending == gwPending[first] IN
          /\ gwPending' = MapDelete(gwPending, first)
          /\ timers' = MapDelete(timers, first)
          /\ IF msg.ok # Bool(FALSE)
             THEN Resolve(pending, JsOr(JsOr(msg.payload, msg.result), MsgValue(msg)))
             ELSE Reject(pending, "remote error", JsOr(Get(msg.error, "message"), Str("RPC error")))
     ELSE UNCHANGED <<gwPending, timers, calls, auths, gwReady, gwSnapshot>>
  /\ UNCHANGED <<crashed, sock, closeReq, nUuid, nSent, lastSent, gwEvents, nRecv, arrived>>

\* Mutant of OnRes: clearTimeout(pending.timer) is missing.
OnResKeepsTimer(msg) ==
  /\ IF MapHas(gwPending, msg.id)
     THEN LET pending == gwPending[msg.id] IN
          /\ gwPending' = MapDelete(gwPending, msg.id)
          /\ timers' = timers
          /\ IF msg.ok # Bool(FALSE)
             THEN Resolve(pending, JsOr(JsOr(msg.payload, msg.result), MsgValue(msg)))
             ELSE Reject(pending, "remote error", JsOr(Get(msg.error, "message"), Str("RPC error")))
     ELSE UNCHANGED <<gwPending, timers, calls, auths, gwReady, gwSnapshot>>
  /\ UNCHANGED <<crashed, sock, closeReq, nUuid, nSent, lastSent, gwEvents, nRecv, arrived>>

\* Mutant of OnRes: `if (pending)` is missing, and reading pending.timer of
\* undefined throws when the id is not in the map.
OnResNoPendingTest(msg) ==
  IF MapHas(gwPending, msg.id)
  THEN LET pending == gwPending[msg.id] IN
       /\ gwPending' = MapDelete(gwPending, msg.id)
       /\ timers' = MapDelete(timers, msg.id)
       /\ IF msg.ok # Bool(FALSE)
          THEN Resolve(pending, JsOr(JsOr(msg.payload, msg.result), MsgValue(msg)))
          ELSE Reject(pending, "remote error", JsOr(Get(msg.error, "message"), Str("RPC error")))
       /\ UNCHANGED <<crashed, sock, closeReq, nUuid, nSent, lastSent, gwEvents, nRecv, arrived>>
  ELSE /\ crashed' = TRUE
       /\ UNCHANGED <<gwPending, timers, calls, auths, gwReady, gwSnapshot>>
       /\ UNCHANGED <<sock, closeReq, nUuid, nSent, lastSent, gwEvents, nRecv, arrived>>

\* Mutant of OnRes: success requires a truthy ok, `if (msg.ok)`.
OnResOkTruthy(msg) ==
  /\ IF MapHas(gwPending, msg.id)
     THEN LET pending == gwPending[msg.id] IN
          /\ gwPending' = MapDelete(gwPending, msg.id)
          /\ timers' = MapDelete(timers, msg.id)
          /\ IF Truthy(msg.ok)
             THEN Resolve(pending, JsOr(JsOr(msg.payload, msg.result), MsgValue(msg)))
             ELSE Reject(pending, "remote error", JsOr(Get(msg.error, "message"), Str("RPC error")))
     ELSE UNCHANGED <<gwPending, timers, calls, auths, gwReady, gwSnapshot>>
  /\ UNCHANGED <<crashed, sock, closeReq, nUuid, nSent, lastSent, gwEvents, nRecv, arrived>>

\* if (msg.type === 'res' && msg.id) { ... }
OnRes(msg) ==
  /\ IF MapHas(gwPending, msg.id)
     THEN LET pending == gwPending[msg.id] IN
          /\ gwPending' = MapDelete(gwPending, msg.id)
          /\ timers' = MapDelete(timers, msg.id)
          /\ IF msg.ok # Bool(FALSE)
             THEN Resolve(pending, JsOr(JsOr(msg.payload, msg.result), MsgValue(msg)))
             ELSE Reject(pending, "remote error", JsOr(Get(msg.error, "message"), Str("RPC error")))
     ELSE UNCHANGED <<gwPending, timers, calls, auths, gwReady, gwSnapshot>>
  /\ UNCHANGED <<crashed, sock, closeReq, nUuid, nSent, lastSent, gwEvents, nRecv, arrived>>

\* Which branch of the listener a frame takes.
Branch(msg) ==
  CASE msg.raw = "unparsable" -> "unparsable"
    [] msg.raw = "null" -> "throws"
    [] msg.type = "event" /\ msg.event = "connect.challenge" -> "challenge"
    [] msg.type = "event" -> "event"
    [] msg.type = "res" /\ msg.id # NoId -> "res"
    [] OTHER -> "ignored"

\* gwSocket.on('message', (data) => { ... })
GwOnMessage(msg) ==
  CASE Branch(msg) = "unparsable" ->
         UNCHANGED <<crashed, sock, closeReq, nUuid, nSent, lastSent, gwPending, timers, auths,
                     gwReady, gwSnapshot, gwEvents, nRecv, arrived, calls>>
    [] Branch(msg) = "throws" ->
         \* msg is null: reading msg.type throws a TypeError out of the listener
         /\ crashed' = TRUE
         /\ UNCHANGED <<sock, closeReq, nUuid, nSent, lastSent, gwPending, timers, auths,
                        gwReady, gwSnapshot, gwEvents, nRecv, arrived, calls>>
    [] Branch(msg) = "challenge" -> OnChallenge(msg)
    [] Branch(msg) = "event" -> OnEvent(msg)
    [] Branch(msg) = "res" -> OnRes(msg)
    [] OTHER ->
         UNCHANGED <<crashed, sock, closeReq, nUuid, nSent, lastSent, gwPending, timers, auths,
                     gwReady, gwSnapshot, gwEvents, nRecv, arrived, calls>>

\* Mutant of GwOnClose: clearTimeout(p.timer) is missing.
GwOnCloseKeepsTimers ==
  /\ gwReady' = FALSE
  /\ gwSocket' = 0
  /\ timers' = timers
  /\ calls' = [c \in DOMAIN calls |->
                 IF MapHas(gwPending, calls[c].id)
                 THEN [calls[c] EXCEPT !.out = Append(@, Failure("connection lost", Undef))]
                 ELSE calls[c]]
  /\ auths' = [k \in DOMAIN auths |->
                 IF MapHas(gwPending, auths[k].id)
                 THEN [auths[k] EXCEPT !.out = Append(@, Failure("connection lost", Undef))]
                 ELSE auths[k]]
  /\ gwPending' = <<>>
  /\ IF ~gwReconnectTimer
     THEN gwReconnectTimer' = TRUE /\ reconnTimers' = reconnTimers + 1
     ELSE UNCHANGED <<gwReconnectTimer, reconnTimers>>

\* Mutant of GwOnClose: gwPending.clear() is missing.
GwOnCloseKeepsPending ==
  /\ gwReady' = FALSE
  /\ gwSocket' = 0
  /\ timers' = [id \in DOMAIN timers \ DOMAIN gwPending |-> timers[id]]
  /\ calls' = [c \in DOMAIN calls |->
                 IF MapHas(gwPending, calls[c].id)
                 THEN [calls[c] EXCEPT !.out = Append(@, Failure("connection lost", Undef))]
                 ELSE calls[c]]
  /\ auths' = [k \in DOMAIN auths |->
                 IF MapHas(gwPending, auths[k].id)
                 THEN [auths[k] EXCEPT !.out = Append(@, Failure("connection lost", Undef))]
                 ELSE auths[k]]
  /\ gwPending' = gwPending
  /\ IF ~gwReconnectTimer
     THEN gwReconnectTimer' = TRUE /\ reconnTimers' = reconnTimers + 1
     ELSE UNCHANGED <<gwReconnectTimer, reconnTimers>>

\* Mutant of GwOnClose: gwReady is not reset.
GwOnCloseKeepsReady ==
  /\ gwReady' = gwReady
  /\ gwSocket' = 0
  /\ timers' = [id \in DOMAIN timers \ DOMAIN gwPending |-> timers[id]]
  /\ calls' = [c \in DOMAIN calls |->
                 IF MapHas(gwPending, calls[c].id)
                 THEN [calls[c] EXCEPT !.out = Append(@, Failure("connection lost", Undef))]
                 ELSE calls[c]]
  /\ auths' = [k \in DOMAIN auths |->
                 IF MapHas(gwPending, auths[k].id)
                 THEN [auths[k] EXCEPT !.out = Append(@, Failure("connection lost", Undef))]
                 ELSE auths[k]]
  /\ gwPending' = <<>>
  /\ IF ~gwReconnectTimer
     THEN gwReconnectTimer' = TRUE /\ reconnTimers' = reconnTimers + 1
     ELSE UNCHANGED <<gwReconnectTimer, reconnTimers>>

\* Mutant of GwOnClose: the map is cleared, the entries are not rejected.
GwOnCloseNoReject ==
  /\ gwReady' = FALSE
  /\ gwSocket' = 0
  /\ timers' = [id \in DOMAIN timers \ DOMAIN gwPending |-> timers[id]]
  /\ UNCHANGED <<calls, auths>>
  /\ gwPending' = <<>>
  /\ IF ~gwReconnectTimer
     THEN gwReconnectTimer' = TRUE /\ reconnTimers' = reconnTimers + 1
     ELSE UNCHANGED <<gwReconnectTimer, reconnTimers>>

\* Mutant of GwOnClose: the reconnect timer is armed without the test.
GwOnCloseAlwaysArms ==
  /\ gwReady' = FALSE
  /\ gwSocket' = 0
  /\ timers' = [id \in DOMAIN timers \ DOMAIN gwPending |-> timers[id]]
  /\ calls' = [c \in DOMAIN calls |->
                 IF MapHas(gwPending, calls[c].id)
                 THEN [calls[c] EXCEPT !.out = Append(@, Failure("connection lost", Undef))]
                 ELSE calls[c]]
  /\ auths' = [k \in DOMAIN auths |->
                 IF MapHas(gwPending, auths[k].id)
                 THEN [auths[k] EXCEPT !.out = Append(@, Failure("connection lost", Undef))]
                 ELSE auths[k]]
  /\ gwPending' = <<>>
  /\ gwReconnectTimer' = TRUE /\ reconnTimers' = reconnTimers + 1

\* ----------------------------------------------------------- close listener
\* gwSocket.on('close', ...): everything but the socket's own readyState.
GwOnClose ==
  /\ gwReady' = FALSE
  /\ gwSocket' = 0
  /\ timers' = [id \in DOMAIN timers \ DOMAIN gwPending |-> timers[id]]
  /\ calls' = [c \in DOMAIN calls |->
                 IF MapHas(gwPending, calls[c].id)
                 THEN [calls[c] EXCEPT !.out = Append(@, Failure("connection lost", Undef))]
                 ELSE calls[c]]
  /\ auths' = [k \in DOMAIN auths |->
                 IF MapHas(gwPending, auths[k].id)
                 THEN [auths[k] EXCEPT !.out = Append(@, Failure("connection lost", Undef))]
                 ELSE auths[k]]
  /\ gwPending' = <<>>
  /\ IF ~gwReconnectTimer
     THEN gwReconnectTimer' = TRUE /\ reconnTimers' = reconnTimers + 1
     ELSE UNCHANGED <<gwReconnectTimer, reconnTimers>>

\* Mutant of GwOnError: the error listener schedules a reconnect as well.
GwOnErrorReconnects ==
  IF ~gwReconnectTimer
  THEN gwReconnectTimer' = TRUE /\ reconnTimers' = reconnTimers + 1
  ELSE UNCHANGED <<gwReconnectTimer, reconnTimers>>

\* gwSocket.on('error', ...): a log line.
GwOnError == UNCHANGED <<gwReconnectTimer, reconnTimers>>

\* ------------------------------------------------------------------ gwCall
\* return reject(new Error('not connected to gateway'))
GwCallRefuse ==
  /\ refused' = refused \cup {Failure("not connected to gateway", Undef)}
  /\ UNCHANGED <<gwReqId, gwPending, timers, nSent, lastSent, calls>>

\* The client has itself asked gwSocket to close (gwSocket.close(1008, ...))
\* while it was Ready, and the close event has not been delivered yet.
InWindow == gwSocket # 0 /\ sock[gwSocket] = "CLOSING" /\ gwSocket \in closedReady

\* Mutant of GwCallAccept: the id is derived from the size of gwPending, not
\* from the counter.
GwCallAcceptIdFromSize(method) ==
  LET id == RpcId(Cardinality(DOMAIN gwPending) + 1) IN
  /\ gwReqId' = gwReqId + 1
  /\ timers' = MapSet(timers, id, method)
  /\ gwPending' = MapSet(gwPending, id, [kind |-> "rpc", n |-> Len(calls) + 1])
  /\ nSent' = nSent + 1
  /\ lastSent' = [sock |-> gwSocket, id |-> id, method |-> method]
  /\ calls' = Append(calls, [id |-> id, out |-> <<>>, win |-> InWindow])
  /\ UNCHANGED refused

\* The rest of the executor: the id, the timer, the entry, the frame.
GwCallAccept(method) ==
  LET id == RpcId(gwReqId + 1) IN
  /\ gwReqId' = gwReqId + 1
  /\ timers' = MapSet(timers, id, method)
  /\ gwPending' = MapSet(gwPending, id, [kind |-> "rpc", n |-> Len(calls) + 1])
  /\ nSent' = nSent + 1
  /\ lastSent' = [sock |-> gwSocket, id |-> id, method |-> method]
  /\ calls' = Append(calls, [id |-> id, out |-> <<>>, win |-> InWindow])
  /\ UNCHANGED refused

\* Mutant of GwCall: the guard tests the socket only, not gwReady.
GwCallSocketOnly(method) ==
  IF gwSocket = 0 THEN GwCallRefuse ELSE GwCallAccept(method)

\* function gwCall(method, args, timeoutMs): the promise executor.
GwCall(method) ==
  IF gwSocket = 0 \/ ~gwReady THEN GwCallRefuse ELSE GwCallAccept(method)

\* Mutant of RpcTimeoutFired: the callback deletes the entry and rejects nobody.
RpcTimeoutSilent(id) ==
  /\ gwPending' = MapDelete(gwPending, id)
  /\ calls' = calls

\* Mutant of RpcTimeoutFired: the reason names the request id, not the method.
RpcTimeoutNamesId(id) ==
  /\ gwPending' = MapDelete(gwPending, id)
  /\ calls' = [calls EXCEPT ![CallOf(id)].out =
                 Append(@, Failure("RPC timeout", Str("rpc")))]

\* The timer callback of gwCall: gwPending.delete(id); reject(RPC timeout: method).
RpcTimeoutFired(id) ==
  /\ gwPending' = MapDelete(gwPending, id)
  /\ calls' = [calls EXCEPT ![CallOf(id)].out =
                 Append(@, Failure("RPC timeout", Str(timers[id])))]

\* The timer callback of gwSendConnect: gwPending.delete(id); a log line.
ConnectTimeoutFired(id) ==
  /\ gwPending' = MapDelete(gwPending, id)

\* ================================================================ actions
\* server.listen(PORT, '0.0.0.0', () => { ...; gwConnect(); })
Startup ==
  /\ ~crashed /\ ~started
  /\ started' = TRUE
  /\ GwConnect
  /\ UNCHANGED <<gwPending, timers, gwReqId, nUuid, gwEvents, gwSnapshot,
                 gwReconnectTimer, reconnTimers, crashed, calls, refused, auths,
                 nSent, lastSent, closeReq, nRecv, noNonce, closedReady, taskVars, arrived, closedArmed, fired,
                 matched>>

\* Mutant of ReconnectFire: the callback does not clear gwReconnectTimer.
ReconnectFireKeepsFlag(maxSock) ==
  /\ ~crashed /\ reconnTimers > 0
  /\ nSock < maxSock
  /\ reconnTimers' = reconnTimers - 1
  /\ gwReconnectTimer' = gwReconnectTimer
  /\ GwConnect
  /\ UNCHANGED <<gwPending, timers, gwReqId, nUuid, gwEvents, gwSnapshot,
                 started, crashed, calls, refused, auths, nSent, lastSent,
                 closeReq, nRecv, noNonce, closedReady, taskVars, arrived, closedArmed, fired, matched>>

\* setTimeout(() => { gwReconnectTimer = null; gwConnect(); }, 3000) fires.
ReconnectFire(maxSock) ==
  /\ ~crashed /\ reconnTimers > 0
  /\ nSock < maxSock
  /\ reconnTimers' = reconnTimers - 1
  /\ gwReconnectTimer' = FALSE
  /\ GwConnect
  /\ UNCHANGED <<gwPending, timers, gwReqId, nUuid, gwEvents, gwSnapshot,
                 started, crashed, calls, refused, auths, nSent, lastSent,
                 closeReq, nRecv, noNonce, closedReady, taskVars, arrived, closedArmed, fired, matched>>

\* The socket's 'open' event: a log line.
SocketOpen(s) ==
  /\ ~crashed /\ sock[s] = "CONNECTING"
  /\ sock' = [sock EXCEPT ![s] = "OPEN"]
  /\ UNCHANGED <<nSock, gwSocket, gwReady, gwPending, timers, gwReqId, nUuid,
                 gwEvents, gwSnapshot, gwReconnectTimer, reconnTimers, started,
                 crashed, calls, refused, auths, nSent, lastSent, closeReq,
                 nRecv, noNonce, closedReady, taskVars, arrived, closedArmed, fired, matched>>

\* The socket's 'error' event (a failed handshake, a broken connection): ws
\* sets readyState to CLOSING, emits 'error', and emits 'close' afterwards.
SocketError(s) ==
  /\ ~crashed /\ sock[s] \in {"CONNECTING", "OPEN"}
  /\ sock' = [sock EXCEPT ![s] = "CLOSING"]
  /\ GwOnError
  /\ UNCHANGED <<nSock, gwSocket, gwReady, gwPending, timers, gwReqId, nUuid,
                 gwEvents, gwSnapshot, started, crashed, calls, refused, auths,
                 nSent, lastSent, closeReq, nRecv, noNonce, closedReady, taskVars, arrived, closedArmed, fired,
                 matched>>

\* Mutant of SocketClose: the close listener also empties the event buffer
\* and forgets the snapshot.
SocketCloseDropsHistory(s) ==
  /\ ~crashed /\ sock[s] \in {"OPEN", "CLOSING"}
  /\ sock' = [sock EXCEPT ![s] = "CLOSED"]
  /\ closeReq' = [closeReq EXCEPT ![s] = 0]
  /\ noNonce' = noNonce \ {s}
  /\ closedReady' = closedReady \ {s}
  /\ GwOnClose
  /\ closedArmed' = (closedArmed \/ gwReconnectTimer)
  /\ gwEvents' = <<>> /\ gwSnapshot' = Null
  /\ UNCHANGED <<taskVars, nSock, gwReqId, nUuid, started, crashed,
                 refused, nSent, lastSent, nRecv, arrived, fired, matched>>

\* The socket's 'close' event, which ws emits once per socket.
SocketClose(s) ==
  /\ ~crashed /\ sock[s] \in {"OPEN", "CLOSING"}
  /\ sock' = [sock EXCEPT ![s] = "CLOSED"]
  /\ closeReq' = [closeReq EXCEPT ![s] = 0]
  /\ noNonce' = noNonce \ {s}
  /\ closedReady' = closedReady \ {s}
  /\ GwOnClose
  /\ closedArmed' = (closedArmed \/ gwReconnectTimer)
  /\ UNCHANGED <<taskVars, nSock, gwReqId, nUuid, gwEvents, gwSnapshot, started, crashed,
                 refused, nSent, lastSent, nRecv, arrived, fired, matched>>

\* The close listener run once more for a socket that has closed already.
RepeatClose(s) ==
  /\ ~crashed /\ sock[s] = "CLOSED"
  /\ GwOnClose
  /\ closedArmed' = (closedArmed \/ gwReconnectTimer)
  /\ UNCHANGED <<sock, nSock, gwReqId, nUuid, gwEvents, gwSnapshot, started,
                 crashed, refused, nSent, lastSent, closeReq, nRecv, noNonce, closedReady, taskVars, arrived,
                 fired, matched>>

\* A frame arrives on socket s.
SocketMessage(s, msg) ==
  /\ ~crashed /\ sock[s] \in {"OPEN", "CLOSING"}
  /\ GwOnMessage(msg)
  /\ matched' = IF Branch(msg) = "res" /\ MapHas(gwPending, msg.id)
                THEN matched \cup {msg.id} ELSE matched
  /\ noNonce' = IF Branch(msg) = "challenge" /\ ~Truthy(Get(msg.payload, "nonce"))
                THEN noNonce \cup {s} ELSE noNonce
  /\ closedReady' = IF /\ Branch(msg) = "challenge" /\ ~Truthy(Get(msg.payload, "nonce"))
                       /\ gwReady /\ gwSocket # 0 /\ sock[gwSocket] = "OPEN"
                    THEN closedReady \cup {gwSocket} ELSE closedReady
  /\ UNCHANGED <<taskVars, nSock, gwSocket, gwReqId, gwReconnectTimer, reconnTimers,
                 started, refused, closedArmed, fired>>

\* An HTTP /rpc request reaches gwCall(rpcMethod, args || {}).
Call(method, maxCalls) ==
  /\ ~crashed /\ started /\ gwReqId < maxCalls
  /\ GwCall(method)
  /\ UNCHANGED <<sock, nSock, gwSocket, gwReady, nUuid, gwEvents, gwSnapshot,
                 gwReconnectTimer, reconnTimers, started, crashed, auths,
                 closeReq, nRecv, noNonce, closedReady, taskVars, arrived, closedArmed, fired, matched>>

\* The deadline timer of call `id` fires.
RpcTimeout(id) ==
  /\ ~crashed /\ id \in DOMAIN timers /\ id[1] = "rpc"
  /\ timers' = MapDelete(timers, id)
  /\ fired' = fired \cup {id}
  /\ RpcTimeoutFired(id)
  /\ UNCHANGED <<sock, nSock, gwSocket, gwReady, gwReqId, nUuid, gwEvents,
                 gwSnapshot, gwReconnectTimer, reconnTimers, started, crashed,
                 refused, auths, nSent, lastSent, closeReq, nRecv, noNonce, closedReady, taskVars, arrived,
                 closedArmed, matched>>

\* The deadline timer of connect request `id` fires.
ConnectTimeout(id) ==
  /\ ~crashed /\ id \in DOMAIN timers /\ id[1] = "uuid"
  /\ timers' = MapDelete(timers, id)
  /\ fired' = fired \cup {id}
  /\ ConnectTimeoutFired(id)
  /\ UNCHANGED <<sock, nSock, gwSocket, gwReady, gwReqId, nUuid, gwEvents,
                 gwSnapshot, gwReconnectTimer, reconnTimers, started, crashed,
                 calls, refused, auths, nSent, lastSent, closeReq, nRecv, noNonce, closedReady, taskVars,
                 arrived, closedArmed, matched>>

\* ------------------------------------------------- what the gateway sends
AllIds == {RpcId(n) : n \in 1..MaxCalls} \cup {UuidId(k) : k \in 1..MaxAuth}

ResFrames ==
  UNION {{ResFrame(id, Undef, HelloSnapshot, Undef, Undef),
          ResFrame(id, Bool(TRUE), Undef, HelloPlain, Undef),
          ResFrame(id, Bool(TRUE), Undef, Undef, Undef),
          ResFrame(id, Bool(FALSE), Undef, Undef, ErrBoom),
          ResFrame(id, Bool(FALSE), Undef, Undef, Undef),
          ResFrame(id, Num(0), HelloPlain, Undef, Undef)} : id \in AllIds \cup {NoId}}

EventFrames ==
  {EventFrame(name, p) : name \in {"health", "tick"}, p \in {Undef, HealthA, HealthB}}

ChallengeFrames == {Challenge(WithNonce), Challenge(EmptyObj), Challenge(Undef)}

PlainFrames == {Unparsable, JsonNull, OtherFrame}

\* The frames the gateway sends under Spec: both challenge shapes, a success
\* and a failure response for every id (pending, settled, never issued, or
\* absent), and the frames the listener has no branch for.
CoreRes ==
  UNION {{ResFrame(id, Undef, HelloPlain, Undef, Undef),
          ResFrame(id, Bool(FALSE), Undef, Undef, ErrBoom)} : id \in AllIds \cup {NoId}}

CoreFrames ==
  {Unparsable, JsonNull, OtherFrame, Challenge(WithNonce), Challenge(EmptyObj)} \cup CoreRes

\* The frames the gateway sends under SpecBuf: events that are only buffered.
BufFrames == {EventFrame("tick", Undef)}

\* Socket s delivers one of `frames`; at most maxAuth connect requests and
\* maxEv buffered events in all.
Receive(s, frames, maxAuth, maxEv) ==
  \E msg \in frames :
    /\ Branch(msg) = "challenge" /\ Truthy(Get(msg.payload, "nonce")) => nUuid < maxAuth
    /\ Branch(msg) = "event" => nRecv < maxEv
    /\ SocketMessage(s, msg)

\* The client, the calls made on it, and the gateway sending `frames`.
Next ==
  \/ Startup
  \/ ReconnectFire(MaxSockets)
  \/ \E s \in SockIds : SocketOpen(s)
  \/ \E s \in SockIds : SocketError(s)
  \/ \E s \in SockIds : SocketClose(s)
  \/ \E s \in SockIds : Receive(s, CoreFrames, MaxAuth, 0)
  \/ \E m \in Methods : Call(m, MaxCalls)
  \/ \E id \in DOMAIN timers : RpcTimeout(id)
  \/ \E id \in DOMAIN timers : ConnectTimeout(id)

Spec == Init /\ [][Next]_vars

\* One connection that receives events only: the event buffer.
NextBuf ==
  \/ Startup
  \/ \E s \in SockIds : SocketOpen(s)
  \/ \E s \in SockIds : SocketError(s)
  \/ \E s \in SockIds : SocketClose(s)
  \/ \E s \in SockIds : Receive(s, BufFrames, 0, MaxBufEvents)

SpecBuf == Init /\ [][NextBuf]_vars

\* The connection life cycle when the close listener of a socket may run more
\* than once.
NextRepeat ==
  \/ Startup
  \/ ReconnectFire(MaxSockets)
  \/ \E s \in SockIds : SocketOpen(s)
  \/ \E s \in SockIds : SocketError(s)
  \/ \E s \in SockIds : SocketClose(s)
  \/ \E s \in SockIds : RepeatClose(s)
  \/ \E s \in SockIds : Receive(s, CoreFrames, MaxAuth, 0)
  \/ \E id \in DOMAIN timers : ConnectTimeout(id)

SpecRepeat == Init /\ [][NextRepeat]_vars

\* One connection, the calls made on it, and every response shape: ok absent,
\* true, false or another value; with a payload, a result, or neither; with
\* and without an error message; for every id and for none.
NextRes ==
  \/ Startup
  \/ \E s \in SockIds : SocketOpen(s)
  \/ \E s \in SockIds : SocketClose(s)
  \/ \E s \in SockIds : Receive(s, ResFrames \cup {Challenge(WithNonce)}, MaxAuth, 0)
  \/ Call("a", MaxCalls)
  \/ \E id \in DOMAIN timers : RpcTimeout(id)
  \/ \E id \in DOMAIN timers : ConnectTimeout(id)

SpecRes == Init /\ [][NextRes]_vars

\* The frames the gateway sends under SpecSnap: the challenge, the answers
\* to the connect request that seed the snapshot, and health and other events.
SnapFrames ==
  {Challenge(WithNonce)} \cup EventFrames \cup
  UNION {{ResFrame(UuidId(k), Undef, HelloSnapshot, Undef, Undef),
          ResFrame(UuidId(k), Undef, HelloPlain, Undef, Undef)} : k \in 1..MaxAuth}

\* One connection that authenticates and receives events: the snapshot.
NextSnap ==
  \/ Startup
  \/ \E s \in SockIds : SocketOpen(s)
  \/ \E s \in SockIds : SocketClose(s)
  \/ \E s \in SockIds : Receive(s, SnapFrames, MaxAuth, MaxSnapEvents)

SpecSnap == Init /\ [][NextSnap]_vars

\* The frames the gateway sends under SpecAuth: challenges, and an accepting
\* and a rejecting answer to every connect request.
AuthFrames ==
  {Challenge(WithNonce), Challenge(EmptyObj)} \cup
  UNION {{ResFrame(UuidId(k), Undef, HelloPlain, Undef, Undef),
          ResFrame(UuidId(k), Bool(FALSE), Undef, Undef, ErrBoom)} : k \in 1..MaxChallenges}

\* The connection life cycle and the handshake, without calls: the gateway
\* may send a challenge at any time and as often as it likes.
NextAuth ==
  \/ Startup
  \/ ReconnectFire(MaxSockets)
  \/ \E s \in SockIds : SocketOpen(s)
  \/ \E s \in SockIds : SocketError(s)
  \/ \E s \in SockIds : SocketClose(s)
  \/ \E s \in SockIds : Receive(s, AuthFrames, MaxChallenges, 0)
  \/ \E id \in DOMAIN timers : ConnectTimeout(id)

SpecAuth == Init /\ [][NextAuth]_vars

\* SpecAuth with what Node and ws guarantee: an armed timer fires, a socket
\* that has started to close delivers its close event, and with a gateway
\* that answers: a pending connect request is answered with success.
FairAuth ==
  /\ SpecAuth
  /\ WF_vars(ReconnectFire(MaxSockets))
  /\ WF_vars(\E id \in DOMAIN timers : ConnectTimeout(id))
  /\ \A s \in SockIds : WF_vars(sock[s] = "CLOSING" /\ SocketClose(s))
  /\ \A s \in SockIds :
       WF_vars(\E id \in DOMAIN gwPending :
                 SocketMessage(s, ResFrame(id, Undef, HelloPlain, Undef, Undef)))

\* Connections that authenticate and receive events, close and are
\* replaced: what the buffer and the snapshot keep across connections.
NextKeep ==
  \/ Startup
  \/ ReconnectFire(MaxSockets)
  \/ \E s \in SockIds : SocketOpen(s)
  \/ \E s \in SockIds : SocketError(s)
  \/ \E s \in SockIds : SocketClose(s)
  \/ \E s \in SockIds : Receive(s, SnapFrames, MaxAuth, MaxSnapEvents)

SpecKeep == Init /\ [][NextKeep]_vars

\* ============================================================= task store
\* A value a request body leaves out (undefined).
Absent == "(absent)"
AbsentTitle == <<"absent", 0>>
Untitled == <<"untitled", 0>>
BodyTitle == <<"body", 1>>
AcceptedNote == "Accepted from suggestion"

\* The seed loadTasks writes when tasks.json cannot be read.
Seed ==
  [exists |-> TRUE,
   tasks |-> [k \in 1..SeedTasks |->
                [id |-> SeedId(k), title |-> SeedId(k), status |-> "backlog", notes |-> ""]],
   suggestions |-> [k \in 1..SeedSuggestions |-> [id |-> SugId(k), title |-> SugId(k)]]]

\* Mutant of LoadTasks: the stored file is never read, every load starts from
\* the seed.
LoadTasksReseeds == Seed

\* function loadTasks(): the parsed file, or the seed, which it writes.
LoadTasks == IF file.exists THEN file ELSE Seed

\* seq.findIndex(x => x.id === id), counted from 1; 0 when nothing matches.
\* find() returns the element at that index.
FindIndex(seq, id) ==
  IF \E j \in DOMAIN seq : seq[j].id = id
  THEN CHOOSE j \in DOMAIN seq :
         seq[j].id = id /\ \A i \in 1..(j - 1) : seq[i].id # id
  ELSE 0

\* data.tasks.filter(t => t.id !== taskId)
FilterOut(seq, id) == SelectSeq(seq, LAMBDA t : t.id # id)

\* seq.splice(j, 1)
Splice(seq, j) == SubSeq(seq, 1, j - 1) \o SubSeq(seq, j + 1, Len(seq))

\* The parsed request body: JSON.parse throws, returns null, or returns an
\* object with the fields the handlers read.
Body(parse, title, status, action) ==
  [parse |-> parse, title |-> title, status |-> status, action |-> action]
CreateBodies ==
  {Body("null", AbsentTitle, Absent, Absent)} \cup
  {Body("object", t, Absent, Absent) : t \in {AbsentTitle, BodyTitle}}
PatchBodies ==
  {Body("null", AbsentTitle, Absent, Absent)} \cup
  {Body("object", AbsentTitle, st, Absent) : st \in {Absent, "done", "review"}}
SuggestionBodies ==
  {Body("null", AbsentTitle, Absent, Absent)} \cup
  {Body("object", AbsentTitle, Absent, a) : a \in {"accept", "dismiss"}}

\* The entry of the history for a request answered with `status`.
Answer(r, kind, target, val, made, status) ==
  [req |-> r, kind |-> kind, target |-> target, val |-> val, made |-> made,
   status |-> status]

\* json(res, status, ...): the handler of request r returns.
Respond(r, kind, target, val, made, status) ==
  /\ reqs' = [reqs EXCEPT ![r].pc = "done"]
  /\ done' = Append(done, Answer(r, kind, target, val, made, status))

\* saveTasks(data)
SaveTasks(data) == file' = data

\* POST /tasks: the task built from the body, pushed.
OnCreate(data, body, id) ==
  [data EXCEPT !.tasks =
     Append(@, [id |-> id,
                title |-> IF body.title = AbsentTitle THEN Untitled ELSE body.title,
                status |-> "backlog", notes |-> ""])]

\* PATCH /tasks/:id: the fields the body defines, assigned to the task found.
OnPatch(data, j, body) ==
  [data EXCEPT !.tasks[j].status = IF body.status = Absent THEN @ ELSE body.status]

\* POST /suggestions/:id: the task pushed on accept, the suggestion spliced out.
OnSuggestion(data, j, body, id) ==
  [data EXCEPT
     !.tasks = IF body.action = "accept"
               THEN Append(@, [id |-> id, title |-> data.suggestions[j].title,
                               status |-> "backlog", notes |-> AcceptedNote])
               ELSE @,
     !.suggestions = Splice(@, j)]

\* A request arrives: requests are numbered in the order of their arrival.
Arrives(r) ==
  /\ ~crashed /\ reqs[r].pc = "new"
  /\ r > 1 => reqs[r - 1].pc # "new"

\* GET /tasks
GetTasks(r) ==
  /\ Arrives(r)
  /\ file' = LoadTasks
  /\ Respond(r, "get", NoTarget, Absent, NoTarget, 200)
  /\ UNCHANGED gwVars

\* DELETE /tasks/:id: the handler reads no body.
DeleteTask(r, id) ==
  /\ Arrives(r)
  /\ SaveTasks([LoadTasks EXCEPT !.tasks = FilterOut(@, id)])
  /\ Respond(r, "delete", id, Absent, NoTarget, 200)
  /\ UNCHANGED gwVars

\* POST /tasks, PATCH /tasks/:id, POST /suggestions/:id: the handler runs up
\* to `await readBody(req)`.
AwaitBody(r, kind, target) ==
  /\ Arrives(r)
  /\ \/ kind = "create" /\ target = NoTarget
     \/ kind = "patch" /\ target \in AllTaskIds
     \/ kind = "suggest" /\ target \in SugIds
  /\ reqs' = [reqs EXCEPT ![r] = [pc |-> "body", kind |-> kind, target |-> target]]
  /\ UNCHANGED <<file, done, gwVars>>

\* readBody rejects (the request's 'error' event) or JSON.parse throws on
\* the body: the catch answers 500.
BodyFails(r) ==
  /\ ~crashed /\ reqs[r].pc = "body"
  /\ Respond(r, reqs[r].kind, reqs[r].target, Absent, NoTarget, 500)
  /\ UNCHANGED <<file, gwVars>>

\* POST /tasks after the body is read.
PostTasks(r, body, id) ==
  /\ ~crashed /\ reqs[r].pc = "body" /\ reqs[r].kind = "create"
  /\ IF body.parse = "null"
     THEN \* body.title throws after loadTasks
          /\ file' = LoadTasks
          /\ Respond(r, "create", NoTarget, Absent, NoTarget, 500)
     ELSE /\ SaveTasks(OnCreate(LoadTasks, body, id))
          /\ Respond(r, "create", NoTarget, Absent, id, 201)
  /\ UNCHANGED gwVars

\* PATCH /tasks/:id after the body is read.
PatchTask(r, body) ==
  LET data == LoadTasks
      j == FindIndex(data.tasks, reqs[r].target) IN
  /\ ~crashed /\ reqs[r].pc = "body" /\ reqs[r].kind = "patch"
  /\ IF j = 0
     THEN /\ file' = data
          /\ Respond(r, "patch", reqs[r].target, Absent, NoTarget, 404)
     ELSE IF body.parse = "null"
     THEN \* body.title throws
          /\ file' = data
          /\ Respond(r, "patch", reqs[r].target, Absent, NoTarget, 500)
     ELSE /\ SaveTasks(OnPatch(data, j, body))
          /\ Respond(r, "patch", reqs[r].target, body.status, NoTarget, 200)
  /\ UNCHANGED gwVars

\* POST /suggestions/:id after the body is read.
PostSuggestion(r, body, id) ==
  LET data == LoadTasks
      j == FindIndex(data.suggestions, reqs[r].target) IN
  /\ ~crashed /\ reqs[r].pc = "body" /\ reqs[r].kind = "suggest"
  /\ IF j = 0
     THEN /\ file' = data
          /\ Respond(r, "suggest", reqs[r].target, Absent, NoTarget, 404)
     ELSE IF body.parse = "null"
     THEN \* body.action throws
          /\ file' = data
          /\ Respond(r, "suggest", reqs[r].target, Absent, NoTarget, 500)
     ELSE /\ SaveTasks(OnSuggestion(data, j, body, id))
          /\ Respond(r, "suggest", reqs[r].target, body.action,
                     IF body.action = "accept" THEN id ELSE NoTarget, 200)
  /\ UNCHANGED gwVars

\* The task store under concurrent requests.
NextTasks ==
  \/ \E r \in 1..MaxRequests : GetTasks(r)
  \/ \E r \in 1..MaxRequests, id \in AllTaskIds : DeleteTask(r, id)
  \/ \E r \in 1..MaxRequests, kind \in {"create", "patch", "suggest"},
        target \in {NoTarget} \cup AllTaskIds \cup SugIds : AwaitBody(r, kind, target)
  \/ \E r \in 1..MaxRequests : BodyFails(r)
  \/ \E r \in 1..MaxRequests, body \in CreateBodies, id \in NewTaskIds :
        PostTasks(r, body, id)
  \/ \E r \in 1..MaxRequests, body \in PatchBodies : PatchTask(r, body)
  \/ \E r \in 1..MaxRequests, body \in SuggestionBodies, id \in NewTaskIds :
        PostSuggestion(r, body, id)

SpecTasks == Init /\ [][NextTasks]_vars

\* ================================================================= claims
Settled(c) == Len(calls[c].out) >= 1
NotConnected == Failure("not connected to gateway", Undef)
ConnectionLost == Failure("connection lost", Undef)
RpcIdsOf(m) == {id \in DOMAIN m : id[1] = "rpc"}
Armed(id) == id \in DOMAIN timers
Accepted(n) == n <= Len(calls)
ClosingStep == \E s \in SockIds : sock[s] # "CLOSED" /\ sock'[s] = "CLOSED"
LastOf(seq, n) == SubSeq(seq, Len(seq) - n + 1, Len(seq))
Min(a, b) == IF a <= b THEN a ELSE b
GwConnectStep == started' # started \/ reconnTimers' < reconnTimers

\* C1: from a state in which the client is not Ready (gwSocket null or gwReady
\* false) no step gives a call an id, a pending entry or a timer, and no step
\* sends a call's frame; the step in which gwCall rejects hands the caller the
\* 'not connected' failure and leaves gwPending, gwReqId, the timers and the
\* frames sent as they were.
C1_NotReadyCallRefused ==
  [][ (gwSocket = 0 \/ ~gwReady) =>
        /\ gwReqId' = gwReqId
        /\ calls' = calls
        /\ RpcIdsOf(gwPending') \subseteq RpcIdsOf(gwPending)
        /\ RpcIdsOf(timers') \subseteq RpcIdsOf(timers)
        /\ nSent' # nSent => lastSent'.method = "connect"
        /\ refused' # refused =>
             /\ refused' = refused \cup {NotConnected}
             /\ UNCHANGED <<gwPending, timers, gwReqId, nSent, lastSent>> ]_vars

\* C1 witness: a call was refused while a socket was held but not Ready, and
\* no id, entry, timer or frame has ever been made.
C1_Witness ==
  /\ refused = {NotConnected}
  /\ gwSocket # 0 /\ ~gwReady
  /\ gwReqId = 0 /\ gwPending = <<>> /\ timers = <<>> /\ nSent = 0

\* C2: no call is handed more than one outcome, whatever the order of
\* responses, deadline expiries and closes.
C2_AtMostOneOutcome == \A c \in DOMAIN calls : Len(calls[c].out) <= 1

\* C2 witness: two calls settled by different paths, one by its own timeout
\* and one by the bulk rejection of a close.
C2_Witness ==
  \E c, d \in DOMAIN calls :
    /\ calls[c].out = <<ConnectionLost>>
    /\ Len(calls[d].out) = 1 /\ calls[d].out[1].reason = "RPC timeout"

\* C3: if every armed deadline timer of a call is eventually disarmed (it
\* fires unless it is cancelled), every call that got a pending entry is
\* eventually handed an outcome and is no longer pending.
C3_AcceptedCallSettles ==
  (\A n \in 1..MaxCalls : [](Armed(RpcId(n)) => <>~Armed(RpcId(n))))
    => (\A n \in 1..MaxCalls :
          [](Accepted(n) => <>(Accepted(n) /\ Settled(n) /\ ~MapHas(gwPending, RpcId(n)))))

\* C3 witness: every call the bound allows was accepted and has its outcome.
C3_Witness ==
  /\ Len(calls) = MaxCalls
  /\ \A c \in DOMAIN calls : Settled(c) /\ ~MapHas(gwPending, calls[c].id)

\* C4: in the step in which a socket's close event is delivered, gwPending
\* becomes empty, no timer of a previously pending entry stays armed, and
\* every previously pending entry is handed 'connection lost'.
C4_CloseDrainsPending ==
  [][ ClosingStep =>
        /\ gwPending' = <<>>
        /\ \A id \in DOMAIN gwPending : id \notin DOMAIN timers'
        /\ DOMAIN calls' = DOMAIN calls
        /\ \A c \in DOMAIN calls :
             calls'[c].out = IF MapHas(gwPending, calls[c].id)
                             THEN Append(calls[c].out, ConnectionLost)
                             ELSE calls[c].out
        /\ \A k \in DOMAIN auths :
             MapHas(gwPending, auths[k].id) =>
               auths'[k].out = Append(auths[k].out, ConnectionLost) ]_vars

\* C4 witness: a close found two calls pending and both have 'connection
\* lost' as their only outcome.
C4_Witness ==
  /\ gwSocket = 0 /\ gwPending = <<>> /\ timers = <<>>
  /\ Len(calls) >= 2
  /\ \A c \in {1, 2} : calls[c].out = <<ConnectionLost>>

\* C5: the buffer never holds more than 50 entries and always equals the last
\* min(n, 50) events received, in arrival order.
C5_BufferIsLastFifty ==
  /\ Len(gwEvents) <= EventCap
  /\ Len(arrived) = nRecv
  /\ gwEvents = LastOf(arrived, Min(nRecv, EventCap))

\* C5 witness: the 51st event has arrived, the 1st is gone and the 2nd to
\* the 51st are held in order.
C5_Witness ==
  /\ nRecv = EventCap + 1
  /\ Len(gwEvents) = EventCap
  /\ \A i \in 1..EventCap : gwEvents[i].time = i + 1

\* The sockets' close events are delivered: ws emits 'close' for every socket
\* it has started to close, at the latest when its close timer destroys it.
FairSpec == Spec /\ \A s \in SockIds : WF_vars(SocketClose(s))

\* C6, the step: a connect.challenge without a nonce leaves its socket
\* closing, with close code 1008 if it was open, and in that step no frame is
\* sent, no request id is drawn and gwPending and the timers do not change.
C6_NoNonceStep ==
  [][ \A s \in SockIds :
        s \in noNonce' /\ s \notin noNonce =>
          /\ sock'[s] = "CLOSING"
          /\ sock[s] = "OPEN" => closeReq'[s] = 1008
          /\ nSent' = nSent /\ lastSent' = lastSent /\ nUuid' = nUuid
          /\ gwPending' = gwPending /\ timers' = timers /\ auths' = auths ]_vars

\* C6: the step above, and the connection then reaches Disconnected: the
\* socket's close event is delivered and the client holds no socket.
C6_NoNonceTearsDown ==
  /\ C6_NoNonceStep
  /\ \A s \in SockIds : [](s \in noNonce => <>(sock[s] = "CLOSED"))

\* C6 witness: a challenge without a nonce made the client close its open
\* socket with code 1008, and no frame was ever sent.
C6_Witness ==
  \E s \in SockIds :
    s \in noNonce /\ sock[s] = "CLOSING" /\ closeReq[s] = 1008 /\ nSent = 0

\* C7: in the step in which the deadline timer of a call fires, the call is
\* handed, as its only outcome, a timeout failure naming the method the call's
\* frame carried, and its id leaves gwPending; the method a timer names is the
\* one of the frame sent when it was armed and never changes afterwards.
C7_TimeoutNamesMethod ==
  [][ /\ \A id \in RpcIdsOf(timers) :
           id \in fired' /\ id \notin fired =>
             /\ ~MapHas(gwPending', id)
             /\ calls'[CallOf(id)].out = <<Failure("RPC timeout", Str(timers[id]))>>
      /\ \A id \in RpcIdsOf(timers') :
           IF id \in DOMAIN timers
           THEN timers'[id] = timers[id]
           ELSE lastSent'.id = id /\ timers'[id] = lastSent'.method
                  /\ lastSent'.method \in Methods ]_vars

\* C7 witness: a call of method "b" timed out and is no longer pending.
C7_Witness ==
  \E c \in DOMAIN calls :
    /\ calls[c].out = <<Failure("RPC timeout", Str("b"))>>
    /\ calls[c].id \in fired
    /\ ~MapHas(gwPending, calls[c].id)

\* C8: in the step in which a response finds the pending entry of id X,
\* exactly X leaves gwPending and the timers, the call of X is handed exactly
\* one outcome, and every other entry, timer and outcome is unchanged.
C8_ResponseMatchesById ==
  [][ \A x \in DOMAIN gwPending :
        x \in matched' /\ x \notin matched =>
          /\ gwPending' = MapDelete(gwPending, x)
          /\ timers' = MapDelete(timers, x)
          /\ DOMAIN calls' = DOMAIN calls
          /\ \A c \in DOMAIN calls :
               IF calls[c].id = x
               THEN Len(calls'[c].out) = Len(calls[c].out) + 1
               ELSE calls'[c] = calls[c] ]_vars

\* C8 witness: two calls were outstanding and the response for the second
\* came first: the second is settled with success, the first is still pending
\* with its timer armed.
C8_Witness ==
  /\ Len(calls) >= 2
  /\ calls[1].out = <<>> /\ MapHas(gwPending, RpcId(1)) /\ RpcId(1) \in DOMAIN timers
  /\ Len(calls[2].out) = 1 /\ calls[2].out[1].res = "success"
  /\ RpcId(2) \in matched

\* C9: in every reachable state at most one reconnect timer is armed, also
\* when the close listener runs several times before the timer fires.
C9_OneReconnectTimer ==
  /\ reconnTimers <= 1
  /\ gwReconnectTimer <=> reconnTimers = 1

\* C9 witness: the close listener ran while the reconnect timer was armed,
\* and one timer is armed.
C9_Witness == closedArmed /\ reconnTimers = 1 /\ gwReconnectTimer

\* C10: at most one socket is live, and it is the one gwSocket holds; a
\* socket is created only in a step of gwConnect taken when no socket is live;
\* and a step of gwConnect taken while gwSocket is connecting or open changes
\* neither the sockets nor gwSocket nor gwReady.
C10_SingleLiveSocket ==
  /\ [](LiveSockets = IF gwSocket = 0 THEN {} ELSE {gwSocket})
  /\ [][ /\ nSock' # nSock =>
              /\ GwConnectStep
              /\ LiveSockets = {}
              /\ nSock' = nSock + 1
              /\ LiveSockets' = {nSock'}
         /\ ( /\ GwConnectStep
              /\ gwSocket # 0
              /\ sock[gwSocket] \in {"CONNECTING", "OPEN"} ) =>
              UNCHANGED <<sock, nSock, gwSocket, gwReady>> ]_vars

\* C10 witness: the reconnect timer has created a second socket after the
\* first delivered its close event; the second is the only live one.
C10_Witness ==
  /\ nSock = 2 /\ sock[1] = "CLOSED" /\ sock[2] \in {"CONNECTING", "OPEN"}
  /\ gwSocket = 2 /\ ~gwReconnectTimer

\* The authentication requests the gateway has rejected or that have timed out.
AuthFaulted(a) ==
  \/ \E i \in DOMAIN auths[a].out : auths[a].out[i].reason = "remote error"
  \/ auths[a].id \in fired

\* C11: once the authentication request sent on a socket has been rejected
\* by the gateway, or its timer has fired, the client has torn that connection
\* down: the socket is closing or closed, as it is after a challenge without
\* a nonce.
C11_HandshakeFaultFatal ==
  \A a \in DOMAIN auths :
    AuthFaulted(a) => sock[auths[a].sock] \in {"CLOSING", "CLOSED"}

\* C11 witness: an authentication request was rejected by the gateway.
C11_Witness ==
  \E a \in DOMAIN auths : AuthFaulted(a) /\ auths[a].id \notin fired

\* The frames of the vocabulary for which the listener has no branch.
Unrecognized == {m \in CoreFrames : Branch(m) \in {"unparsable", "throws", "ignored"}}

\* C12: the delivery of a frame that does not parse, or that parses to a
\* value that is no event and no response with an id, raises no exception and
\* changes neither the connection state nor gwPending, the timers, gwEvents
\* or gwSnapshot.
C12_UnrecognizedDropped ==
  [][ \A s \in SockIds, m \in Unrecognized :
        SocketMessage(s, m) =>
          /\ crashed' = crashed
          /\ UNCHANGED <<sock, gwSocket, gwReady, gwPending, timers, gwEvents,
                         gwSnapshot>> ]_vars

\* C12 witness: the process is gone, with its socket still open.
C12_Witness == crashed /\ gwSocket # 0 /\ sock[gwSocket] = "OPEN"

\* The ids handed out so far, to calls and to authentication requests.
UsedIds == {calls[c].id : c \in DOMAIN calls} \cup {auths[a].id : a \in DOMAIN auths}

\* C13: the ids of the calls are pairwise distinct and so are those of the
\* authentication requests, every pending id belongs to exactly one request,
\* which has no outcome yet, and an id that enters gwPending was never handed
\* out before.
C13_IdsNeverReused ==
  /\ [](/\ \A c, d \in DOMAIN calls : calls[c].id = calls[d].id => c = d
        /\ \A a, b \in DOMAIN auths : auths[a].id = auths[b].id => a = b
        /\ \A id \in DOMAIN gwPending :
             IF gwPending[id].kind = "rpc"
             THEN calls[gwPending[id].n].id = id /\ calls[gwPending[id].n].out = <<>>
             ELSE auths[gwPending[id].n].id = id /\ auths[gwPending[id].n].out = <<>>)
  /\ [][ \A id \in DOMAIN gwPending' :
           id \notin DOMAIN gwPending => id \notin UsedIds /\ id \notin DOMAIN timers ]_vars

\* C13 witness: the first call is settled and gone from gwPending, the
\* second is pending under another id.
C13_Witness ==
  /\ Len(calls) = 2 /\ Settled(1) /\ ~MapHas(gwPending, calls[1].id)
  /\ MapHas(gwPending, calls[2].id) /\ calls[2].id # calls[1].id

\* C14: in the step in which a response finds the pending entry of a call,
\* the entry and its timer are removed and the call is handed one outcome:
\* a failure if the response's ok is false, whose message is the response's
\* error message or 'RPC error' when it carries none, and a success for any
\* other ok, absent included.
C14_OkDecidesOutcome ==
  [][ \A s \in SockIds, m \in ResFrames :
        ( /\ MapHas(gwPending, m.id)
          /\ gwPending[m.id].kind = "rpc"
          /\ matched' = matched \cup {m.id}
          /\ SocketMessage(s, m) ) =>
          LET c == gwPending[m.id].n
              o == calls'[c].out[Len(calls'[c].out)] IN
          /\ ~MapHas(gwPending', m.id)
          /\ m.id \notin DOMAIN timers'
          /\ Len(calls'[c].out) = Len(calls[c].out) + 1
          /\ IF m.ok = Bool(FALSE)
             THEN /\ o.res = "failure"
                  /\ o.arg = IF Truthy(Get(m.error, "message"))
                             THEN Get(m.error, "message")
                             ELSE Str("RPC error")
             ELSE o.res = "success" ]_vars

\* C14 witness: one call failed with the generic message, the other failed
\* with the message the response carried, both by a matching response.
C14_Witness ==
  /\ Len(calls) = 2
  /\ calls[1].out = <<Failure("remote error", Str("RPC error"))>>
  /\ calls[2].out = <<Failure("remote error", Str("boom"))>>
  /\ {calls[1].id, calls[2].id} \subseteq matched

\* C15: in the step in which a response whose ok is not false finds the
\* pending entry of the authentication request, the client becomes Ready with
\* its socket held, so that gwCall accepts, and gwSnapshot becomes the
\* snapshot field of the response's payload if it has one, else the payload.
C15_AuthSuccessSeedsSnapshot ==
  [][ \A s \in SockIds, m \in ResFrames :
        ( /\ SocketMessage(s, m)
          /\ MapHas(gwPending, m.id)
          /\ gwPending[m.id].kind = "auth"
          /\ m.ok # Bool(FALSE) ) =>
          /\ gwReady' /\ gwSocket' # 0
          /\ gwSnapshot' = JsOr(Get(m.payload, "snapshot"), m.payload) ]_vars

\* C15 witness: the client is Ready and holds the snapshot field of the
\* authentication response's payload.
C15_Witness ==
  /\ gwReady /\ gwSocket # 0
  /\ gwSnapshot = Get(HelloSnapshot, "snapshot")

\* C18: no outcome handed to a call is an object whose id field is the
\* call's correlation id.
C18_NoIdExposed ==
  \A c \in DOMAIN calls : \A i \in DOMAIN calls[c].out :
    LET v == calls[c].out[i].arg IN
    ~(v.t = "object" /\ "id" \in DOMAIN v.f /\ v.f["id"] = calls[c].id)

\* C18 witness: a call succeeded with a response that carried a result and
\* no payload, and was handed the result.
C18_Witness ==
  \E c \in DOMAIN calls : calls[c].out = <<Success(HelloPlain)>> /\ calls[c].id \in matched

\* A step that delivers a health event.
HealthStep ==
  /\ Len(arrived') = Len(arrived) + 1
  /\ arrived'[Len(arrived')].event = "health"

\* C16: in a step that delivers a health event, every key of gwSnapshot
\* other than health is still a key afterwards, with the same value.
C16_HealthKeepsOtherKeys ==
  [][ HealthStep =>
        \A k \in DOMAIN Spread(gwSnapshot) \ {"health"} :
          /\ k \in DOMAIN Spread(gwSnapshot')
          /\ Spread(gwSnapshot')[k] = Spread(gwSnapshot)[k] ]_vars

\* C16 witness: the snapshot seeded by the authentication response has
\* received a health event and holds both its own key and the health data.
C16_Witness ==
  /\ gwSnapshot.t = "object"
  /\ DOMAIN Spread(gwSnapshot) = {"sessions", "health"}
  /\ Spread(gwSnapshot)["sessions"] = Num(3)
  /\ Spread(gwSnapshot)["health"] = HealthB

\* The buffer after the step is the buffer before it with frame m appended,
\* less its oldest entry when that exceeds the capacity.
AppendedOnce(m) ==
  LET n == Len(gwEvents') IN
  /\ n = Min(Len(gwEvents) + 1, EventCap)
  /\ gwEvents'[n].event = m.event /\ gwEvents'[n].payload = m.payload
  /\ \A i \in 1..(n - 1) : gwEvents'[i] = gwEvents[i + Len(gwEvents) + 1 - n]

\* C17 as stated: the delivery of any frame of type event, whatever its
\* event name, appends that event to gwEvents exactly once.
C17_EveryEventBuffered ==
  [][ \A s \in SockIds, m \in SnapFrames :
        m.type = "event" /\ SocketMessage(s, m) => AppendedOnce(m) ]_vars

\* C17 amended: the delivery of any frame of type event other than
\* connect.challenge appends that event to gwEvents exactly once, also when
\* it is a health event that updates gwSnapshot.
C17_EventsButChallengeBuffered ==
  [][ \A s \in SockIds, m \in SnapFrames :
        ( /\ m.type = "event" /\ m.event # "connect.challenge"
          /\ SocketMessage(s, m) ) => AppendedOnce(m) ]_vars

\* C17 witness: a health event updated the snapshot and is the newest entry
\* of the buffer.
C17_Witness ==
  /\ Len(gwEvents) >= 1
  /\ gwEvents[Len(gwEvents)].event = "health"
  /\ gwEvents[Len(gwEvents)].payload = HealthA
  /\ Get(gwSnapshot, "health") = HealthA

\* The authentication requests sent on socket s.
AuthsOn(s) == {a \in DOMAIN auths : auths[a].sock = s}

\* C19: on every socket at most one authentication request is ever sent.
C19_OneAuthPerConnection ==
  \A s \in SockIds : Cardinality(AuthsOn(s)) <= 1

\* C19 witness: the handshake was retried on a new connection, one request
\* on each of two sockets.
C19_Witness ==
  Cardinality(AuthsOn(1)) = 1 /\ Cardinality(AuthsOn(2)) = 1

\* C20: whenever the client is Ready it holds a socket, and an
\* authentication request sent on that socket has been answered with
\* success; and a step that creates a socket or delivers a close event
\* leaves the client not Ready.
C20_ReadyNeedsCurrentAuth ==
  /\ [](gwReady =>
          /\ gwSocket # 0
          /\ \E a \in AuthsOn(gwSocket) :
               \E i \in DOMAIN auths[a].out : auths[a].out[i].res = "success")
  /\ [][ (nSock' # nSock \/ ClosingStep) => ~gwReady' ]_vars

\* C20 witness: the request sent on the first connection was lost with it,
\* and the second connection is Ready by its own request.
C20_Witness ==
  /\ gwReady /\ gwSocket = 2 /\ Len(auths) = 2
  /\ auths[1].sock = 1 /\ auths[1].out = <<ConnectionLost>>
  /\ auths[2].sock = 2

\* C21: the delivery of a response whose id is not in gwPending hands no
\* outcome to any call or authentication request, raises no exception, and
\* leaves gwPending, the timers, the connection state, gwEvents and
\* gwSnapshot unchanged.
C21_UnmatchedResponseDropped ==
  [][ \/ /\ crashed' = crashed
         /\ UNCHANGED <<calls, auths, gwPending, timers, sock, gwSocket,
                        gwReady, gwEvents, gwSnapshot>>
      \/ ~\E s \in SockIds, m \in ResFrames :
            /\ m.id # NoId
            /\ ~MapHas(gwPending, m.id)
            /\ UNCHANGED <<nSock, gwReqId, started, fired, reconnTimers>>
            /\ SocketMessage(s, m) ]_vars

\* C21 witness: on an open connection one call has timed out and another
\* has been answered, so that a response for either id finds no entry, while
\* the authentication request has been answered too.
C21_Witness ==
  /\ gwSocket # 0 /\ sock[gwSocket] = "OPEN" /\ gwReady
  /\ Len(calls) = 2 /\ gwPending = <<>>
  /\ calls[1].id \in fired /\ calls[2].id \in matched

\* C22: a step that delivers a close event leaves exactly one reconnect
\* timer armed; the step in which the timer fires leaves gwReconnectTimer
\* clear and a new socket connecting; and, armed timers firing, every socket
\* that has closed is followed by a further connection attempt, as long as
\* the bound on sockets allows one.
C22_ReconnectRepeats ==
  /\ [][ClosingStep => gwReconnectTimer' /\ reconnTimers' = 1]_vars
  /\ [][ reconnTimers' < reconnTimers =>
           /\ ~gwReconnectTimer'
           /\ nSock' = nSock + 1 /\ sock'[nSock'] = "CONNECTING" ]_vars
  /\ \A s \in 1..(MaxSockets - 1) : [](sock[s] = "CLOSED" => <>(nSock > s))

\* C22 witness: the attempt started by the fired timer has closed again
\* without ever opening a session, and a timer is armed anew.
C22_Witness ==
  /\ nSock = 2 /\ sock[1] = "CLOSED" /\ sock[2] = "CLOSED"
  /\ gwReconnectTimer /\ reconnTimers = 1 /\ auths = <<>>

\* The client is not Ready on the open socket s, whose authentication
\* request has been rejected by the gateway or has timed out.
FaultedOpen(s) ==
  /\ gwSocket = s /\ sock[s] = "OPEN" /\ ~gwReady
  /\ \E a \in AuthsOn(s) : AuthFaulted(a)

\* C23, for the states after an authentication fault: from every state in
\* which the client is not Ready on an open connection whose authentication
\* request was rejected or timed out, the client eventually becomes Ready
\* again, unless the gateway breaks or closes that connection.
C23_ResumesService ==
  \A s \in SockIds : [](FaultedOpen(s) => <>(gwReady \/ sock[s] # "OPEN"))

\* C23 witness: the authentication request of the open connection timed
\* out and the client is not Ready.
C23_Witness ==
  \E s \in SockIds : FaultedOpen(s) /\ \E a \in AuthsOn(s) : auths[a].id \in fired

\* The payload of the health event a step delivers, when it has one.
HealthPayload == arrived'[Len(arrived')].payload
MergingStep == HealthStep /\ Truthy(HealthPayload)

\* C24 as stated: in a step that delivers a health event with a payload,
\* every key of the health data held before that the payload does not carry
\* is still present afterwards with its value, in the health data or in the
\* snapshot itself, and every key of the payload has the payload's value.
C24_HealthMergedByKey ==
  [][ MergingStep =>
        LET old == Spread(Get(gwSnapshot, "health"))
            new == Spread(HealthPayload)
            now == Spread(Get(gwSnapshot', "health")) IN
        /\ \A k \in DOMAIN old \ DOMAIN new :
             \/ k \in DOMAIN now /\ now[k] = old[k]
             \/ k \in DOMAIN Spread(gwSnapshot') /\ Spread(gwSnapshot')[k] = old[k]
        /\ \A k \in DOMAIN new :
             \/ k \in DOMAIN now /\ now[k] = new[k]
             \/ k \in DOMAIN Spread(gwSnapshot') /\ Spread(gwSnapshot')[k] = new[k] ]_vars

\* C24 amended: in a step that delivers a health event with a payload, the
\* health field of gwSnapshot becomes that payload as a whole, so that after
\* two health events it is the later payload and nothing else.
C24_HealthReplaced ==
  [][ MergingStep => Get(gwSnapshot', "health") = HealthPayload ]_vars

\* C24 witness: two health events with different keys have arrived and the
\* health field is the payload of the second; the key of the first is gone.
C24_Witness ==
  /\ Len(arrived) = 2
  /\ arrived[1].event = "health" /\ arrived[1].payload = HealthA
  /\ arrived[2].event = "health" /\ arrived[2].payload = HealthB
  /\ Get(gwSnapshot, "health") = HealthB

\* C25: in every reachable state the ids with an armed deadline timer are
\* exactly the ids in gwPending, for calls and for authentication requests.
C25_TimersMatchPending == DOMAIN timers = DOMAIN gwPending

\* C25 witness: of two calls one has been answered and has neither entry nor
\* timer, the other is pending with its timer armed.
C25_Witness ==
  /\ Len(calls) = 2
  /\ calls[1].id \in matched /\ calls[1].id \notin DOMAIN timers
  /\ DOMAIN gwPending = {calls[2].id} /\ DOMAIN timers = {calls[2].id}

\* C26: in every reachable state in which gwSocket is null, gwReady is false
\* and gwPending is empty.
C26_NoSocketNoPending ==
  gwSocket = 0 => ~gwReady /\ gwPending = <<>>

\* C26 witness: the client holds no socket after a close that found it
\* Ready with a call pending.
C26_Witness ==
  /\ gwSocket = 0 /\ ~gwReady /\ gwPending = <<>>
  /\ \E c \in DOMAIN calls : calls[c].out = <<ConnectionLost>>

\* C27: a step that delivers a close event, the step in which the reconnect
\* timer fires, and a step of gwConnect, creating a socket or not, leave
\* gwEvents and gwSnapshot unchanged.
C27_HistorySurvivesReconnect ==
  [][ (ClosingStep \/ GwConnectStep \/ nSock' # nSock) =>
        UNCHANGED <<gwEvents, gwSnapshot>> ]_vars

\* C27 witness: the first connection has closed and a second attempt is
\* under way, and the events and the snapshot recorded on the first are held.
C27_Witness ==
  /\ nSock = 2 /\ sock[1] = "CLOSED" /\ sock[2] = "CONNECTING"
  /\ Len(gwEvents) = MaxSnapEvents
  /\ gwSnapshot.t = "object" /\ "health" \in DOMAIN Spread(gwSnapshot)

\* A call accepted after the client asked its Ready socket to close.
WindowCalls == {c \in DOMAIN calls : calls[c].win}

\* The step hands call c an outcome.
Ends(c) == calls'[c].out # calls[c].out

\* The ways the call c accepted in the window is handed its outcome: by the
\* close listener, by its own timer, and (if byResponse) by a response
\* bearing its id that arrives on the closing socket before the close event.
WindowEnding(c, byResponse) ==
  \/ ClosingStep /\ calls'[c].out = <<ConnectionLost>>
  \/ /\ calls[c].id \in fired' /\ calls[c].id \notin fired
     /\ Len(calls'[c].out) = 1 /\ calls'[c].out[1].reason = "RPC timeout"
  \/ /\ byResponse
     /\ InWindow /\ gwSocket' = gwSocket /\ nSock' = nSock
     /\ \E m \in ResFrames : m.id = calls[c].id /\ SocketMessage(gwSocket, m)

\* While the window is open the client stays Ready, a nonce-less challenge
\* on the Ready socket opens it, and a call made in it is accepted.
WindowStaysReady ==
  /\ [][ \A s \in SockIds :
           s \in closedReady' /\ s \notin closedReady
             => gwReady' /\ InWindow' /\ closeReq'[s] = 1008 ]_vars
  /\ [][ InWindow /\ gwReady /\ ~ClosingStep => gwReady' /\ InWindow' ]_vars
  /\ [][ InWindow /\ gwReady /\ (Len(calls') # Len(calls) \/ refused' # refused)
           => /\ refused' = refused
              /\ Len(calls') = Len(calls) + 1
              /\ calls'[Len(calls')].win
              /\ MapHas(gwPending', calls'[Len(calls')].id) ]_vars

\* C28 as stated: while the window between the client's own close of a Ready
\* socket and the close event is open, the client stays Ready and gwCall
\* accepts, and a call accepted in the window is handed exactly one of
\* 'connection lost' (by the close event) and its own 'RPC timeout'.
C28_WindowCallLost ==
  /\ WindowStaysReady
  /\ [][ \A c \in WindowCalls : Ends(c) => WindowEnding(c, FALSE) ]_vars

\* C28, amended: as above, and the call may also be handed the outcome of a
\* response bearing its id that arrives on the closing socket before the
\* close event; no step of a later connection hands it anything.
C28_WindowCallEndsInWindow ==
  /\ WindowStaysReady
  /\ [][ \A c \in WindowCalls : Ends(c) => WindowEnding(c, TRUE) ]_vars

\* C28 witness: a call accepted in the window was handed 'connection lost',
\* and the client has since opened a later connection.
C28_Witness ==
  \E c \in WindowCalls :
    /\ calls[c].out = <<ConnectionLost>>
    /\ gwSocket # 0 /\ sock[gwSocket] = "OPEN" /\ nSock = MaxSockets

\* What GET /tasks returns.
Stored == LoadTasks

\* The answers of the history that report a mutation of the store.
Mutated(i) == done[i].kind # "get" /\ done[i].status \in {200, 201}

\* The position in the history of the last DELETE of task id x, 0 if none.
LastDelete(x) ==
  LET D == {i \in DOMAIN done : done[i].kind = "delete" /\ done[i].target = x} IN
  IF D = {} THEN 0 ELSE CHOOSE i \in D : \A k \in D : k <= i

\* The tasks with id x pushed since: by POST /tasks, by an accepted
\* suggestion, or by the seed.
PushesOf(x) ==
  Cardinality({i \in DOMAIN done : i > LastDelete(x) /\ Mutated(i) /\ done[i].made = x})
    + (IF LastDelete(x) = 0 /\ x \in {SeedId(k) : k \in 1..SeedTasks} THEN 1 ELSE 0)

\* The PATCHes of task id x answered 200 since that set a status.
PatchesOf(x) ==
  {i \in DOMAIN done : /\ i > LastDelete(x) /\ done[i].kind = "patch"
                       /\ done[i].target = x /\ done[i].status = 200
                       /\ done[i].val # Absent}

\* The status the stored task at position j must have.
StatusDue(j) ==
  LET x == Stored.tasks[j].id
      P == PatchesOf(x) IN
  IF P # {} /\ j = FindIndex(Stored.tasks, x)
  THEN done[CHOOSE i \in P : \A k \in P : k <= i].val
  ELSE "backlog"

\* The POSTs to suggestion g answered 200.
SugAnswers(g) ==
  {i \in DOMAIN done : done[i].kind = "suggest" /\ done[i].target = g /\ done[i].status = 200}

\* Every mutation answered with success is in the stored list.
NoUpdateLost ==
  /\ \A x \in AllTaskIds :
       Cardinality({j \in DOMAIN Stored.tasks : Stored.tasks[j].id = x}) = PushesOf(x)
  /\ \A j \in DOMAIN Stored.tasks : Stored.tasks[j].status = StatusDue(j)
  /\ \A g \in SugIds :
       (\E j \in DOMAIN Stored.suggestions : Stored.suggestions[j].id = g)
         <=> SugAnswers(g) = {}

\* A suggestion is removed by at most one request, and at most one task
\* comes from it.
SuggestionOnce ==
  \A g \in SugIds :
    /\ Cardinality(SugAnswers(g)) <= 1
    /\ Cardinality({i \in SugAnswers(g) : done[i].made # NoTarget}) <= 1
    /\ \A i \in SugAnswers(g) : done[i].made # NoTarget <=> done[i].val = "accept"
    /\ Cardinality({j \in DOMAIN Stored.tasks :
                      /\ Stored.tasks[j].title = g
                      /\ Stored.tasks[j].notes = AcceptedNote})
         <= Cardinality({i \in SugAnswers(g) : done[i].val = "accept"})

\* C29: a handler that reads a body touches tasks.json in no step before the
\* body is read, and its load, modification and save are one step, the one
\* that answers the request; so under every interleaving of requests the
\* stored list holds every mutation answered with success (every task
\* pushed and not deleted since, the status of the last successful patch,
\* no suggestion that a request removed), and a suggestion is removed by at
\* most one request and yields at most one task.
C29_NoLostUpdate ==
  /\ [](NoUpdateLost /\ SuggestionOnce)
  /\ [][ \A r \in 1..MaxRequests :
           reqs[r].pc = "new" /\ reqs'[r].pc = "body" => file' = file ]_vars
  /\ [][ file' # file =>
           /\ Len(done') = Len(done) + 1
           /\ \E r \in 1..MaxRequests :
                /\ reqs[r].pc # "done" /\ reqs'[r].pc = "done"
                /\ \A q \in 1..MaxRequests \ {r} : reqs'[q] = reqs[q] ]_vars

\* C29 witness: two POST /tasks whose body reads overlapped, the later
\* request answered first, and both tasks are in the stored list.
C29_Witness ==
  /\ Len(done) = 2
  /\ done[1].req = 2 /\ done[2].req = 1
  /\ \A i \in 1..2 : done[i].kind = "create" /\ done[i].status = 201
  /\ Len(file.tasks) = SeedTasks + 2

====
